---------------------------- MODULE Spec2Model ----------------------------
(***************************************************************************)
(* Model of the ISE endpoint export scripts ise-export.py and              *)
(* ise-export-test.py: main() drives an interactive shell over SSH with    *)
(* wait_for_prompt(), then checks for the copied report and uploads it.    *)
(*                                                                         *)
(* Time is counted in ticks of 50 ms, so that time.sleep(0.1) lasts        *)
(* SleepInterval = 2 ticks; the clock advances in time.sleep only.         *)
(* The remote output is a byte stream made of words: the four markers the  *)
(* scripts wait for, each abbreviated to its first and last character,     *)
(* and one two-byte UTF-8 character.                                       *)
(***************************************************************************)
EXTENDS Integers, Sequences, FiniteSets, TLC

VARIABLES
    script,      \* which of the two scripts runs
    pc,          \* position of main()
    step,        \* number of the script step main() is at (1..6)
    envFile,     \* load_environment: does the .env file exist
    missing_vars,\* get_config: the required variables that are not set
    credentials, \* check_aws_credentials: "unchecked", "found", "missing"
    ssh,         \* paramiko.SSHClient: "new", "connected", "closed"
    channel,     \* the shell channel: "none", "open", "closed"
    connects,    \* number of calls of ssh.connect
    closes,      \* number of times the transport was closed
    sent,        \* commands written with channel.send, in order
    started,     \* steps whose wait_for_prompt call was made, in order
    matched,     \* steps whose wait_for_prompt call returned True
    timedout,    \* steps whose wait_for_prompt call returned False
    errors,      \* messages given to logging.error, in order
    exists,      \* os.path.exists of the report: "unchecked", "yes", "no"
    uploads,     \* results of the upload operation, in order
    exitStatus,  \* exit status of the process, Running until it exits
    inq,         \* bytes received on the channel and not yet read
    inflight,    \* bytes of the word being sent that have not arrived yet
    responses,   \* number of markers the appliance has sent
    noise,       \* number of other words the remote side has sent
    session,     \* all the text read from the channel, by every call
    wpc,         \* position of wait_for_prompt
    prompt,      \* wait_for_prompt: parameter prompt
    timeout,     \* wait_for_prompt: parameter timeout, in ticks
    elapsed,     \* wait_for_prompt: time.time() - start_time, in ticks
    buffer,      \* wait_for_prompt: local buffer
    chunk,       \* wait_for_prompt: local chunk (decoded)
    reads,       \* wait_for_prompt: number of channel.recv calls made
    retval       \* wait_for_prompt: returned value

vars == << script, pc, step, envFile, missing_vars, credentials, connects, ssh,
           channel, closes, sent, started, matched, timedout, errors, exists,
           uploads, exitStatus, inq, inflight, responses, noise, session, wpc,
           prompt, timeout, elapsed, buffer, chunk, reads, retval >>

mainVars == << script, pc, step, envFile, missing_vars, credentials,
               connects, ssh,
               channel, closes, sent, started, matched, timedout, errors,
               exists, uploads, exitStatus >>

remoteVars == << inq, inflight, responses, noise >>

frameVars == << wpc, prompt, timeout, elapsed, buffer, chunk, reads,
                retval >>

---------------------------------------------------------------------------
(* Bounds of the model *)

\* Words the remote side sends in one run besides the appliance's markers.
MaxNoise == 1

\* Bytes the channel holds unread: the remote side sends a word only when
\* it fits (the receive window of the channel, scaled).
MaxUnread == 4

\* Default timeout of wait_for_prompt in ticks (30 s in the code, scaled).
DefaultTimeout == 3

\* Largest timeout tried when wait_for_prompt is checked on its own.
MaxTimeout == 4

---------------------------------------------------------------------------
(* Program constants *)

\* time.sleep(0.1): two ticks of 50 ms.
SleepInterval == 2

\* channel.recv(1024)
RecvSize == 1024

\* exitStatus while the process has not exited: no exit status.
Running == 0 - 1

ExportScript == "ise-export.py"
TestScript == "ise-export-test.py"

\* The markers, abbreviated to their first and last character.
AdminPrompt == << "i", "#" >>   \* "ise-ppan-cx/admin#"
MenuMarker  == << "S", "n" >>   \* "Selection configuration option"
StartMarker == << "S", "t" >>   \* "Starting to generate All Endpoints report"
DoneMarker  == << "C", "t" >>   \* "Completed generating All Endpoints report"

Markers == { AdminPrompt, MenuMarker, StartMarker, DoneMarker }

\* One character outside ASCII, as its two UTF-8 bytes.
TwoByteChar == << "0xC3", "0xA9" >>

\* What the remote side can send.
Vocabulary == Markers \cup { TwoByteChar }

Min(a, b) == IF a < b THEN a ELSE b

---------------------------------------------------------------------------
(* wait_for_prompt *)

\* bytes.decode('utf-8') succeeds: no byte of a two-byte character stands
\* alone (errors='strict' raises UnicodeDecodeError otherwise).
Decodable(bytes) ==
    \A i \in 1..Len(bytes) :
        /\ bytes[i] = "0xC3" => (i < Len(bytes) /\ bytes[i + 1] = "0xA9")
        /\ bytes[i] = "0xA9" => (i > 1 /\ bytes[i - 1] = "0xC3")

\* bytes.decode('utf-8') of decodable bytes: the text.
RECURSIVE Decode(_)
Decode(bytes) ==
    IF bytes = << >> THEN << >>
    ELSE IF Head(bytes) = "0xC3"
         THEN << "e-acute" >> \o Decode(Tail(Tail(bytes)))
         ELSE << Head(bytes) >> \o Decode(Tail(bytes))

\* `sub in text` of Python strings.
Contains(text, sub) ==
    \E i \in 0..(Len(text) - Len(sub)) :
        SubSeq(text, i + 1, i + Len(sub)) = sub

\* channel.recv(nbytes): the bytes it returns when data is ready.
Recv(nbytes) == SubSeq(inq, 1, Min(Len(inq), nbytes))

\* The condition of the while loop.
LoopConditionLe(e, t) == e <= t
LoopCondition(e, t) == e < t

\* The test that ends the wait with a match.
PromptFoundInChunk(p, c, b) == Contains(c, p)
PromptFound(p, c, b) == Contains(b, p)

\* return True, at once when the prompt is found.
ReturnTrueAfterSleep ==
    /\ wpc' = "sleep"
    /\ retval' = TRUE
ReturnTrue ==
    /\ wpc' = "returned"
    /\ retval' = TRUE

\* The call wait_for_prompt(channel, p, t): start_time and buffer are set.
EnterWaitKeepsBuffer(p, t) ==
    /\ wpc' = "loop"
    /\ prompt' = p
    /\ timeout' = t
    /\ elapsed' = 0
    /\ buffer' = session
    /\ chunk' = << >>
    /\ reads' = 0
    /\ retval' = FALSE
EnterWait(p, t) ==
    /\ wpc' = "loop"
    /\ prompt' = p
    /\ timeout' = t
    /\ elapsed' = 0
    /\ buffer' = << >>
    /\ chunk' = << >>
    /\ reads' = 0
    /\ retval' = FALSE

\* One test of the while condition and, when it holds, the body up to
\* time.sleep: a read if recv_ready(), and the search of the buffer.
WaitPoll ==
    /\ wpc = "loop"
    /\ IF ~LoopCondition(elapsed, timeout)
       THEN /\ wpc' = "returned"
            /\ retval' = FALSE
            /\ UNCHANGED << inq, session, buffer, chunk, reads >>
       ELSE IF inq = << >>
       THEN /\ wpc' = "sleep"
            /\ UNCHANGED << inq, session, buffer, chunk, reads, retval >>
       ELSE LET bytes == Recv(RecvSize) IN
            /\ inq' = SubSeq(inq, Len(bytes) + 1, Len(inq))
            /\ reads' = reads + 1
            /\ IF ~Decodable(bytes)
               THEN /\ wpc' = "raised"
                    /\ UNCHANGED << session, buffer, chunk, retval >>
               ELSE /\ chunk' = Decode(bytes)
                    /\ buffer' = buffer \o Decode(bytes)
                    /\ session' = session \o Decode(bytes)
                    /\ IF PromptFound(prompt, chunk', buffer')
                       THEN ReturnTrue
                       ELSE wpc' = "sleep" /\ UNCHANGED retval
    /\ UNCHANGED << prompt, timeout, elapsed, inflight, responses, noise >>
    /\ UNCHANGED mainVars

\* time.sleep(0.1)
WaitSleepNoClock ==
    /\ wpc = "sleep"
    /\ wpc' = "loop"
    /\ UNCHANGED << prompt, timeout, elapsed, buffer, chunk, reads, retval >>
    /\ UNCHANGED remoteVars
    /\ UNCHANGED session
    /\ UNCHANGED mainVars
WaitSleep ==
    /\ wpc = "sleep"
    /\ elapsed' = elapsed + SleepInterval
    /\ wpc' = "loop"
    /\ UNCHANGED << prompt, timeout, buffer, chunk, reads, retval >>
    /\ UNCHANGED remoteVars
    /\ UNCHANGED session
    /\ UNCHANGED mainVars

---------------------------------------------------------------------------
(* The session script of main() *)

NoSend == "(nothing)"

\* The report file name is defined by ise-export-test.py alone.
CsvFileDefined(s) == s = TestScript

CopyCommand == "copy disk:/FullReport_TODAY.csv repository NFS\n"

\* The six waits of main(), each with the command written before it and
\* the error logged when it times out.
ScriptSwapped ==
    << [send |-> NoSend, expect |-> AdminPrompt,
        err |-> "Timeout waiting for initial prompt"],
       [send |-> "16\n", expect |-> MenuMarker,
        err |-> "Timeout waiting for menu"],
       [send |-> "application configure ise\n", expect |-> StartMarker,
        err |-> "Timeout waiting for report start"],
       [send |-> NoSend, expect |-> DoneMarker,
        err |-> "Timeout waiting for report completion"],
       [send |-> "0\n", expect |-> AdminPrompt,
        err |-> "Timeout waiting for admin prompt"],
       [send |-> CopyCommand, expect |-> AdminPrompt,
        err |-> "Timeout waiting for copy completion"] >>
ScriptErrorCopied ==
    << [send |-> NoSend, expect |-> AdminPrompt,
        err |-> "Timeout waiting for initial prompt"],
       [send |-> "application configure ise\n", expect |-> MenuMarker,
        err |-> "Timeout waiting for menu"],
       [send |-> "16\n", expect |-> StartMarker,
        err |-> "Timeout waiting for report start"],
       [send |-> NoSend, expect |-> DoneMarker,
        err |-> "Timeout waiting for report start"],
       [send |-> "0\n", expect |-> AdminPrompt,
        err |-> "Timeout waiting for admin prompt"],
       [send |-> CopyCommand, expect |-> AdminPrompt,
        err |-> "Timeout waiting for copy completion"] >>
Script ==
    << [send |-> NoSend, expect |-> AdminPrompt,
        err |-> "Timeout waiting for initial prompt"],
       [send |-> "application configure ise\n", expect |-> MenuMarker,
        err |-> "Timeout waiting for menu"],
       [send |-> "16\n", expect |-> StartMarker,
        err |-> "Timeout waiting for report start"],
       [send |-> NoSend, expect |-> DoneMarker,
        err |-> "Timeout waiting for report completion"],
       [send |-> "0\n", expect |-> AdminPrompt,
        err |-> "Timeout waiting for admin prompt"],
       [send |-> CopyCommand, expect |-> AdminPrompt,
        err |-> "Timeout waiting for copy completion"] >>

NumSteps == Len(Script)

\* No call of wait_for_prompt in main() passes a timeout: the default.
StepTimeout(k) == DefaultTimeout

required_vars ==
    { "ISE_HOST", "ISE_USER", "ISE_KEY", "NFS_PATH", "AWS_REGION",
      "S3_BUCKET" }

---------------------------------------------------------------------------
(* The remote side *)

\* The remote side sends the word w; its first n bytes arrive at once.
Arrive(w, n) ==
    /\ channel = "open"
    /\ exitStatus = Running
    /\ inflight = << >>
    /\ Len(inq) + Len(w) <= MaxUnread
    /\ inq' = inq \o SubSeq(w, 1, n)
    /\ inflight' = SubSeq(w, n + 1, Len(w))
    /\ UNCHANGED session
    /\ UNCHANGED frameVars
    /\ UNCHANGED mainVars

\* The command that makes the appliance print the marker of step k has
\* been written: the appliance answers commands, it does not run ahead.
Triggered(k) ==
    Cardinality({ j \in 1..k : Script[j].send # NoSend }) <= Len(sent)

\* The appliance prints the next marker of the session.
RemoteRespond(n) ==
    /\ responses < NumSteps
    /\ Triggered(responses + 1)
    /\ responses' = responses + 1
    /\ Arrive(Script[responses + 1].expect, n)
    /\ UNCHANGED noise

\* The remote side prints something else: a marker out of turn, or text
\* outside ASCII.
RemoteNoise(w, n) ==
    /\ noise < MaxNoise
    /\ noise' = noise + 1
    /\ Arrive(w, n)
    /\ UNCHANGED responses

\* The rest of a word arrives.
RemoteArrive ==
    /\ channel = "open"
    /\ exitStatus = Running
    /\ inflight # << >>
    /\ inq' = inq \o inflight
    /\ inflight' = << >>
    /\ UNCHANGED << responses, noise, session >>
    /\ UNCHANGED frameVars
    /\ UNCHANGED mainVars

---------------------------------------------------------------------------
(* main() *)

\* The process ends with status code after logging the errors msgs.
Exit(code, msgs) ==
    /\ pc' = "exited"
    /\ exitStatus' = code
    /\ errors' = errors \o msgs

Goto(label) ==
    /\ pc' = label
    /\ UNCHANGED << exitStatus, errors >>

\* except paramiko.SSHException
ExceptSSHException == Exit(1, << "SSH error" >>)

\* except Exception as e: the message logged ends with str(e).
ErrorOccurred(e) ==
    CASE e = "NameError" -> "An error occurred: name 'CSV_FILE' is not defined"
      [] e = "socket.error" -> "An error occurred: socket error"
      [] e = "UnicodeDecodeError" -> "An error occurred: can't decode bytes"
      [] e = "S3UploadFailedError" -> "An error occurred: failed to upload"

ExceptException(e) == Exit(1, << ErrorOccurred(e) >>)

\* load_environment(env_name)
LoadEnvironment ==
    /\ pc = "load_environment"
    /\ \E e \in BOOLEAN :
        /\ envFile' = e
        /\ IF e THEN Goto("get_config")
                ELSE Exit(1, << "Environment file not found" >>)
    /\ UNCHANGED connects
    /\ UNCHANGED << script, step, missing_vars, credentials, ssh, channel,
                    closes, sent, started, matched, timedout, exists, uploads >>
    /\ UNCHANGED remoteVars
    /\ UNCHANGED session
    /\ UNCHANGED frameVars

\* get_config()
GetConfig ==
    /\ pc = "get_config"
    /\ \E m \in SUBSET required_vars :
        /\ missing_vars' = m
        /\ IF m = { } THEN Goto("check_aws_credentials")
           ELSE Exit(1, << "Missing required environment variables" >>)
    /\ UNCHANGED connects
    /\ UNCHANGED << script, step, envFile, credentials, ssh, channel,
                    closes, sent, started, matched, timedout, exists, uploads >>
    /\ UNCHANGED remoteVars
    /\ UNCHANGED session
    /\ UNCHANGED frameVars

\* if not check_aws_credentials(): sys.exit(1)
CheckAwsCredentialsIgnored ==
    /\ pc = "check_aws_credentials"
    /\ credentials' \in { "found", "missing" }
    /\ Goto("connect")
    /\ UNCHANGED connects
    /\ UNCHANGED << script, step, envFile, missing_vars, ssh, channel,
                    closes, sent, started, matched, timedout, exists, uploads >>
    /\ UNCHANGED remoteVars
    /\ UNCHANGED session
    /\ UNCHANGED frameVars
CheckAwsCredentials ==
    /\ pc = "check_aws_credentials"
    /\ \/ /\ credentials' = "found"
          /\ Goto("connect")
       \/ /\ credentials' = "missing"
          /\ Exit(1, << "AWS credentials not found" >>)
       \/ /\ credentials' = "missing"
          /\ Exit(1, << "Error checking AWS credentials" >>)
    /\ UNCHANGED connects
    /\ UNCHANGED << script, step, envFile, missing_vars, ssh, channel,
                    closes, sent, started, matched, timedout, exists, uploads >>
    /\ UNCHANGED remoteVars
    /\ UNCHANGED session
    /\ UNCHANGED frameVars

\* What main() does when ssh.connect raises.
ConnectFailedGoesOn(e) == Goto("invoke_shell")
ConnectFailed(e) ==
    IF e = "SSHException" THEN ExceptSSHException ELSE ExceptException(e)

\* ssh = paramiko.SSHClient(); ssh.connect(...)
Connect ==
    /\ pc = "connect"
    /\ connects' = connects + 1
    /\ \/ /\ ssh' = "connected"
          /\ Goto("invoke_shell")
       \/ /\ \E e \in { "SSHException", "socket.error" } : ConnectFailed(e)
          /\ UNCHANGED ssh
    /\ UNCHANGED << script, step, envFile, missing_vars, credentials,
                    channel, closes, sent, started, matched, timedout, exists,
                    uploads >>
    /\ UNCHANGED remoteVars
    /\ UNCHANGED session
    /\ UNCHANGED frameVars

\* channel = ssh.invoke_shell()
InvokeShell ==
    /\ pc = "invoke_shell"
    /\ \/ /\ channel' = "open"
          /\ Goto("call")
       \/ /\ ExceptSSHException
          /\ UNCHANGED channel
    /\ UNCHANGED connects
    /\ UNCHANGED << script, step, envFile, missing_vars, credentials, ssh,
                    closes, sent, started, matched, timedout, exists, uploads >>
    /\ UNCHANGED remoteVars
    /\ UNCHANGED session
    /\ UNCHANGED frameVars

\* channel.send(command) of the current step.  The copy command is built
\* from CSV_FILE, a NameError where that name is not defined; a send on a
\* broken connection raises socket.error.
Send ==
    /\ pc = "send"
    /\ IF Script[step].send = CopyCommand /\ ~CsvFileDefined(script)
       THEN ExceptException("NameError") /\ UNCHANGED sent
       ELSE \/ /\ sent' = Append(sent, Script[step].send)
               /\ Goto("call")
            \/ /\ ExceptException("socket.error")
               /\ UNCHANGED sent
    /\ UNCHANGED connects
    /\ UNCHANGED << script, step, envFile, missing_vars, credentials, ssh,
                    channel, closes, started, matched, timedout, exists, uploads >>
    /\ UNCHANGED remoteVars
    /\ UNCHANGED session
    /\ UNCHANGED frameVars

\* The call wait_for_prompt(channel, marker) of the current step.
Call ==
    /\ pc = "call"
    /\ started' = Append(started, step)
    /\ EnterWait(Script[step].expect, StepTimeout(step))
    /\ Goto("wait")
    /\ UNCHANGED connects
    /\ UNCHANGED << script, step, envFile, missing_vars, credentials, ssh,
                    channel, closes, sent, matched, timedout, exists, uploads >>
    /\ UNCHANGED remoteVars
    /\ UNCHANGED session

\* The frame of wait_for_prompt is left.
LeaveWait ==
    /\ wpc' = "idle"
    /\ prompt' = << >>
    /\ timeout' = 0
    /\ elapsed' = 0
    /\ buffer' = << >>
    /\ chunk' = << >>
    /\ reads' = 0
    /\ retval' = FALSE

\* if not wait_for_prompt(...): logging.error(...); sys.exit(1)
StepTimedOutGoesOn ==
    /\ errors' = Append(errors, Script[step].err)
    /\ UNCHANGED exitStatus
    /\ IF step < NumSteps
       THEN /\ step' = step + 1
            /\ pc' = IF Script[step + 1].send = NoSend THEN "call" ELSE "send"
       ELSE /\ pc' = "close"
            /\ UNCHANGED step
StepTimedOutRetries ==
    /\ errors' = Append(errors, Script[step].err)
    /\ pc' = "call"
    /\ UNCHANGED << exitStatus, step >>
StepTimedOut ==
    /\ Exit(1, << Script[step].err >>)
    /\ UNCHANGED step

\* wait_for_prompt returned True: main() goes on to the next statement.
StepMatched ==
    /\ UNCHANGED << exitStatus, errors >>
    /\ IF step < NumSteps
       THEN /\ step' = step + 1
            /\ pc' = IF Script[step + 1].send = NoSend THEN "call" ELSE "send"
       ELSE /\ pc' = "close"
            /\ UNCHANGED step

\* wait_for_prompt returns to main().
WaitReturn ==
    /\ pc = "wait"
    /\ wpc = "returned"
    /\ IF retval
       THEN /\ matched' = matched \cup { step }
            /\ StepMatched
            /\ UNCHANGED timedout
       ELSE /\ timedout' = timedout \cup { step }
            /\ StepTimedOut
            /\ UNCHANGED matched
    /\ LeaveWait
    /\ UNCHANGED connects
    /\ UNCHANGED << script, envFile, missing_vars, credentials, ssh,
                    channel, closes, sent, started, exists, uploads >>
    /\ UNCHANGED remoteVars
    /\ UNCHANGED session

\* wait_for_prompt raises UnicodeDecodeError: except Exception in main().
WaitRaise ==
    /\ pc = "wait"
    /\ wpc = "raised"
    /\ ExceptException("UnicodeDecodeError")
    /\ LeaveWait
    /\ UNCHANGED connects
    /\ UNCHANGED << script, step, envFile, missing_vars, credentials, ssh,
                    channel, closes, sent, started, matched, timedout, exists,
                    uploads >>
    /\ UNCHANGED remoteVars
    /\ UNCHANGED session

\* channel.close(); ssh.close()
CloseSkipped ==
    /\ pc = "close"
    /\ Goto("exists")
    /\ UNCHANGED << channel, ssh, closes, connects >>
    /\ UNCHANGED << script, step, envFile, missing_vars, credentials, sent,
                    started, matched, timedout, exists, uploads >>
    /\ UNCHANGED remoteVars
    /\ UNCHANGED session
    /\ UNCHANGED frameVars
Close ==
    /\ pc = "close"
    /\ channel' = "closed"
    /\ ssh' = "closed"
    /\ closes' = closes + 1
    /\ Goto("exists")
    /\ UNCHANGED connects
    /\ UNCHANGED << script, step, envFile, missing_vars, credentials, sent,
                    started, matched, timedout, exists, uploads >>
    /\ UNCHANGED remoteVars
    /\ UNCHANGED session
    /\ UNCHANGED frameVars

\* The else branch of os.path.exists: the report is not there.
FileMissingUploads == Goto("upload")
FileMissing == Exit(1, << "File not found" >>)

\* if os.path.exists(...): the path is built from CSV_FILE.
Exists ==
    /\ pc = "exists"
    /\ IF ~CsvFileDefined(script)
       THEN ExceptException("NameError") /\ UNCHANGED exists
       ELSE \/ /\ exists' = "yes"
               /\ Goto("upload")
            \/ /\ exists' = "no"
               /\ FileMissing
    /\ UNCHANGED connects
    /\ UNCHANGED << script, step, envFile, missing_vars, credentials, ssh,
                    channel, closes, sent, started, matched, timedout, uploads >>
    /\ UNCHANGED remoteVars
    /\ UNCHANGED session
    /\ UNCHANGED frameVars

\* The results the upload operation can have: upload_to_s3 returns True,
\* returns False after a ClientError, or raises another exception; the
\* curl command of os.system ends with status zero or not.
UploadResults(s) ==
    IF s = ExportScript THEN { "True", "False", "raised" }
                        ELSE { "zero", "nonzero" }

\* What main() does with the result r of the upload.
AfterUploadIgnoresFailure(r) == Goto("return")
AfterUpload(r) ==
    CASE r \in { "True", "zero" } -> Goto("return")
      [] r = "False" ->
            Exit(1, << "Error uploading to S3",
                       "Failed to upload file to S3" >>)
      [] r = "nonzero" -> Exit(1, << "Failed to upload file to S3" >>)
      [] r = "raised" -> ExceptException("S3UploadFailedError")

\* upload_to_s3(...) / os.system(upload_cmd)
Upload ==
    /\ pc = "upload"
    /\ \E r \in UploadResults(script) :
        /\ uploads' = Append(uploads, r)
        /\ AfterUpload(r)
    /\ UNCHANGED connects
    /\ UNCHANGED << script, step, envFile, missing_vars, credentials, ssh,
                    channel, closes, sent, started, matched, timedout, exists >>
    /\ UNCHANGED remoteVars
    /\ UNCHANGED session
    /\ UNCHANGED frameVars

\* main() returns after logging the success: the process exits with 0.
Return ==
    /\ pc = "return"
    /\ Exit(0, << >>)
    /\ UNCHANGED connects
    /\ UNCHANGED << script, step, envFile, missing_vars, credentials, ssh,
                    channel, closes, sent, started, matched, timedout, exists,
                    uploads >>
    /\ UNCHANGED remoteVars
    /\ UNCHANGED session
    /\ UNCHANGED frameVars

---------------------------------------------------------------------------
(* A run of either script *)

Init ==
    /\ script \in { ExportScript, TestScript }
    /\ pc = IF script = ExportScript THEN "load_environment" ELSE "connect"
    /\ step = 1
    /\ envFile = FALSE
    /\ missing_vars = { }
    /\ credentials = "unchecked"
    /\ ssh = "new"
    /\ channel = "none"
    /\ connects = 0
    /\ closes = 0
    /\ sent = << >>
    /\ started = << >>
    /\ matched = { }
    /\ timedout = { }
    /\ errors = << >>
    /\ exists = "unchecked"
    /\ uploads = << >>
    /\ exitStatus = Running
    /\ inq = << >>
    /\ inflight = << >>
    /\ responses = 0
    /\ noise = 0
    /\ session = << >>
    /\ wpc = "idle"
    /\ prompt = << >>
    /\ timeout = 0
    /\ elapsed = 0
    /\ buffer = << >>
    /\ chunk = << >>
    /\ reads = 0
    /\ retval = FALSE

Next ==
    \/ LoadEnvironment
    \/ GetConfig
    \/ CheckAwsCredentials
    \/ Connect
    \/ InvokeShell
    \/ Send
    \/ Call
    \/ WaitPoll
    \/ WaitSleep
    \/ WaitReturn
    \/ WaitRaise
    \/ Close
    \/ Exists
    \/ Upload
    \/ Return
    \/ \E n \in 1..2 : RemoteRespond(n)
    \/ \E w \in Vocabulary : \E n \in 1..Len(w) : RemoteNoise(w, n)
    \/ RemoteArrive

Spec == Init /\ [][Next]_vars

\* The statements of the program, as opposed to the steps of the appliance.
Program ==
    \/ LoadEnvironment
    \/ GetConfig
    \/ CheckAwsCredentials
    \/ Connect
    \/ InvokeShell
    \/ Send
    \/ Call
    \/ WaitPoll
    \/ WaitSleep
    \/ WaitReturn
    \/ WaitRaise
    \/ Close
    \/ Exists
    \/ Upload
    \/ Return

\* The interpreter executes the next statement of main(): every call into
\* paramiko, the file system or the uploader returns or raises, and
\* time.sleep returns.  Nothing is assumed of the appliance.
FairSpec == Spec /\ WF_vars(Program)

---------------------------------------------------------------------------
(* wait_for_prompt on its own: any marker, any timeout, and the stream     *)
(* from any point of the session on, all the commands being written        *)

InitWait ==
    /\ script = TestScript
    /\ pc = "harness"
    /\ step = 1
    /\ envFile = FALSE
    /\ missing_vars = { }
    /\ credentials = "unchecked"
    /\ ssh = "connected"
    /\ channel = "open"
    /\ connects = 1
    /\ closes = 0
    /\ sent = SelectSeq([ k \in 1..NumSteps |-> Script[k].send ],
                        LAMBDA c : c # NoSend)
    /\ started = << >>
    /\ matched = { }
    /\ timedout = { }
    /\ errors = << >>
    /\ exists = "unchecked"
    /\ uploads = << >>
    /\ exitStatus = Running
    /\ inq = << >>
    /\ inflight = << >>
    /\ responses \in 0..NumSteps
    /\ noise = 0
    /\ session = << >>
    /\ wpc = "loop"
    /\ prompt \in Markers
    /\ timeout \in 1..MaxTimeout
    /\ elapsed = 0
    /\ buffer = << >>
    /\ chunk = << >>
    /\ reads = 0
    /\ retval = FALSE

NextWait ==
    \/ WaitPoll
    \/ WaitSleep
    \/ \E n \in 1..2 : RemoteRespond(n)
    \/ \E w \in Vocabulary : \E n \in 1..Len(w) : RemoteNoise(w, n)
    \/ RemoteArrive

SpecWait == InitWait /\ [][NextWait]_vars

---------------------------------------------------------------------------
(* Properties *)

AllSteps == 1..NumSteps

\* The commands in the order the session is meant to write them.
FixedOrder ==
    << "application configure ise\n", "16\n", "0\n", CopyCommand >>

\* The step whose command is the n-th command of the session.
CommandStep(n) == CHOOSE k \in AllSteps : Script[k].send = FixedOrder[n]

\* The number of steps up to k that write a command.
CommandsUpTo(k) == Cardinality({ j \in 1..k : Script[j].send # NoSend })

\* C1: in every run in which the SSH transport was opened, the channel and
\* the SSH client are closed when the process exits, on every exit path.
C1_TransportClosedOnExit ==
    (pc = "exited" /\ ssh # "new") =>
        (ssh = "closed" /\ channel \in { "none", "closed" })

\* C2: fail-fast: when the wait of step k has timed out, the run has ended
\* with the error of step k as its only error, no wait of a later step was
\* started and no command of a later step was written.
C2_FailFast ==
    \A k \in timedout :
        /\ pc = "exited"
        /\ exitStatus = 1
        /\ wpc = "idle"
        /\ timedout = { k }
        /\ started = [ j \in 1..k |-> j ]
        /\ Len(sent) = CommandsUpTo(k)
        /\ errors = << Script[k].err >>
        /\ uploads = << >>

C2_Witness ==
    /\ pc = "exited"
    /\ timedout = { 3 }
    /\ Len(sent) = 2

C4_MatchAcrossReads ==
    Contains(buffer, prompt) => (wpc = "returned" /\ retval)

C4_Witness ==
    /\ wpc = "returned"
    /\ retval
    /\ reads >= 2
    /\ ~Contains(chunk, prompt)

\* The transport worked: no write raised and all the data read was text.
TransportWorked ==
    /\ channel # "none"
    /\ \A i \in 1..Len(errors) :
        errors[i] \notin { ErrorOccurred("socket.error"),
                           ErrorOccurred("UnicodeDecodeError") }

\* C5: in a run of either script in which the transport opened and worked
\* and no wait timed out, the session script is completed when the process
\* exits: all six waits matched, all four commands were written, and the
\* transport was closed exactly once.
C5_SuccessEndToEnd ==
    (pc = "exited" /\ TransportWorked /\ timedout = { }) =>
        /\ matched = AllSteps
        /\ sent = FixedOrder
        /\ closes = 1

\* C6: the process exits with status 0 exactly when the connection was
\* opened, all six waits matched, the report file was there and the upload
\* succeeded, without any error; every other exit has status 1.
C6_ZeroOnlyOnSuccess ==
    pc = "exited" =>
        /\ exitStatus \in { 0, 1 }
        /\ exitStatus = 0 <=>
              /\ ssh # "new"
              /\ channel # "none"
              /\ matched = AllSteps
              /\ timedout = { }
              /\ exists = "yes"
              /\ Len(uploads) = 1
              /\ uploads[1] \in { "True", "zero" }
              /\ errors = << >>

C6_Witness ==
    /\ pc = "exited"
    /\ exitStatus = 0

\* C7: the commands written are a prefix of the fixed order, and a command
\* is written only when the waits of all the steps before it have matched,
\* so that only the last command written can be unconfirmed.
C7_SendAfterConfirm ==
    /\ Len(sent) <= Len(FixedOrder)
    /\ \A n \in 1..Len(sent) :
        /\ sent[n] = FixedOrder[n]
        /\ \A j \in 1..(CommandStep(n) - 1) : j \in matched
        /\ n < Len(sent) => CommandStep(n) \in matched

C7_Witness ==
    /\ sent = FixedOrder
    /\ 6 \notin matched

\* C8: when the wait for the report-completion marker has timed out, the
\* run has failed with the error of that wait, neither the exit command
\* nor the copy command was written, and no upload was made.
C8_NoCopyAfterReportTimeout ==
    \A k \in timedout :
        Script[k].expect = DoneMarker =>
            /\ pc = "exited"
            /\ exitStatus = 1
            /\ errors = << "Timeout waiting for report completion" >>
            /\ \A n \in 1..Len(sent) : sent[n] \notin { "0\n", CopyCommand }
            /\ exists = "unchecked"
            /\ uploads = << >>

C8_Witness ==
    /\ \E k \in timedout : Script[k].expect = DoneMarker
    /\ Len(sent) = 2

\* C9: while no connection or no shell is open, and so after ssh.connect or
\* invoke_shell has raised, no wait was started, nothing was written and
\* nothing uploaded, and the process cannot exit with status 0; the run in
\* which connecting failed has ended with status 1.
C9_ConnectionErrorFirst ==
    /\ (ssh = "new" \/ channel = "none") =>
        /\ started = << >>
        /\ sent = << >>
        /\ wpc = "idle"
        /\ uploads = << >>
        /\ exitStatus # 0
    /\ \A i \in 1..Len(errors) :
        errors[i] = "SSH error" =>
            (pc = "exited" /\ exitStatus = 1 /\ channel = "none")

C9_Witness ==
    /\ pc = "exited"
    /\ ssh = "new"
    /\ errors = << "SSH error" >>

\* C10: when all steps have matched and the report file is found missing,
\* the run has ended with status 1 and the file-not-found error, and the
\* upload was not made.
C10_MissingFileNoUpload ==
    exists = "no" =>
        /\ pc = "exited"
        /\ exitStatus = 1
        /\ errors = << "File not found" >>
        /\ uploads = << >>

C10_Witness ==
    /\ exists = "no"
    /\ matched = AllSteps
    /\ closes = 1

\* C11: while main() waits for the report-completion marker, the timeout
\* of that wait is strictly greater than the timeout of every wait for
\* another marker.
C11_LongReportTimeout ==
    (pc = "wait" /\ wpc # "idle" /\ prompt = DoneMarker) =>
        \A k \in AllSteps :
            Script[k].expect # DoneMarker => timeout > StepTimeout(k)

\* The text t ends with the text u.
IsSuffix(u, t) ==
    /\ Len(u) <= Len(t)
    /\ SubSeq(t, Len(t) - Len(u) + 1, Len(t)) = u

\* C12 as stated: the matcher has one buffer for the whole session, so
\* that during every wait the buffer is all the text read so far in the
\* session, the text read by the earlier waits included.
C12_OneSessionBuffer ==
    (pc = "wait" /\ wpc # "idle") => buffer = session

\* C12 as amended: the buffer is emptied at the start of each call of
\* wait_for_prompt and holds the text read during that call alone, the end
\* of the session text; a call returns True only when it has itself read
\* text and the prompt is in the text it read.
C12_BufferPerCall ==
    (pc = "wait" /\ wpc # "idle") =>
        /\ IsSuffix(buffer, session)
        /\ reads = 0 => buffer = << >>
        /\ (wpc = "returned" /\ retval) =>
               (reads >= 1 /\ Contains(buffer, prompt))

\* The prompt was read in step 1 and the wait of step 5 for the same
\* prompt has timed out all the same.
C12_Witness ==
    /\ 5 \in timedout
    /\ Contains(session, AdminPrompt)
    /\ Script[5].expect = AdminPrompt

\* C13: nothing is retried in a run: the waits started are distinct steps
\* in increasing order, the commands written are distinct, ssh.connect is
\* called at most once, the transport is closed at most once, the upload
\* is made at most once, and after a wait has timed out no wait runs.
C13_NoRetry ==
    /\ \A i, j \in 1..Len(started) : i < j => started[i] < started[j]
    /\ \A i, j \in 1..Len(sent) : i < j => sent[i] # sent[j]
    /\ Len(started) <= NumSteps
    /\ connects <= 1
    /\ closes <= 1
    /\ Len(uploads) <= 1
    /\ timedout # { } =>
          /\ wpc = "idle"
          /\ pc = "exited"
          /\ Cardinality(timedout) = 1

\* A run with a failed upload at its end: every operation was made once.
C13_Witness ==
    /\ pc = "exited"
    /\ exitStatus = 1
    /\ connects = 1
    /\ Len(started) = NumSteps
    /\ Len(sent) = 4
    /\ Len(uploads) = 1

\* The phase of the run main() is in at the position l: pre-flight checks,
\* connecting, running the script, transferring, done, exited.
Phase(l) ==
    CASE l \in { "load_environment", "get_config",
                 "check_aws_credentials" } -> 0
      [] l \in { "connect", "invoke_shell" } -> 1
      [] l \in { "send", "call", "wait", "close" } -> 2
      [] l \in { "exists", "upload" } -> 3
      [] l = "return" -> 4
      [] l = "exited" -> 5

\* The upload is attempted only after every wait has matched and the
\* transport was closed; a logged error ends the run with status 1.
C14_Inv ==
    /\ (pc = "upload" \/ uploads # << >>) =>
          /\ matched = AllSteps
          /\ ssh = "closed"
          /\ channel = "closed"
    /\ errors # << >> => (pc = "exited" /\ exitStatus = 1)

\* C14: the phases of a run advance forward only and the step number never
\* decreases; the upload is attempted only when every wait has matched and
\* the transport is closed; after a failure nothing is written and nothing
\* uploaded; once the process has exited nothing changes any more.
C14_ForwardOnly ==
    /\ []C14_Inv
    /\ [][ /\ Phase(pc') >= Phase(pc)
           /\ step' >= step
           /\ pc # "exited"
           /\ errors # << >> => (sent' = sent /\ uploads' = uploads) ]_vars

C14_Witness ==
    /\ pc = "upload"
    /\ ssh = "closed"
    /\ matched = AllSteps

\* The sequence t begins with the sequence u.
IsPrefix(u, t) ==
    /\ Len(u) <= Len(t)
    /\ SubSeq(t, 1, Len(u)) = u

\* While wait_for_prompt is running the text it has read does not contain
\* the prompt, and when it has returned True the text without the last
\* chunk did not contain it: the call returned at the first such read.
C15_Inv ==
    /\ wpc \in { "loop", "sleep" } => ~Contains(buffer, prompt)
    /\ (wpc = "returned" /\ retval) =>
          /\ Contains(buffer, prompt)
          /\ IsSuffix(chunk, buffer)
          /\ ~Contains(SubSeq(buffer, 1, Len(buffer) - Len(chunk)), prompt)

\* C15: wait_for_prompt returns True at the first read after which its
\* buffer contains the prompt, without a sleep after that read; from the
\* return to the next call nothing is read from the channel, so the bytes
\* that are in the channel or arrive there stay for the next call.
C15_ReturnAtFirstMatch ==
    /\ []C15_Inv
    /\ [][ /\ (wpc' = "returned" /\ wpc # "returned") =>
                 (wpc = "loop" /\ elapsed' = elapsed)
           /\ wpc \in { "returned", "idle" } =>
                 (IsPrefix(inq, inq') /\ session' = session)
           /\ (wpc = "returned" /\ wpc' = "returned") =>
                 (reads' = reads /\ buffer' = buffer) ]_vars

\* A call has returned True and bytes that arrived since wait in the
\* channel.
C15_Witness ==
    /\ pc = "wait"
    /\ wpc = "returned"
    /\ retval
    /\ inq # << >>

\* The markers of the steps 1..k one after the other: the output of an
\* appliance that answers every step in script order and sends nothing else.
RECURSIVE ExpectedStream(_)
ExpectedStream(k) ==
    IF k = 0 THEN << >> ELSE ExpectedStream(k - 1) \o Script[k].expect

\* C16: the outcome does not depend on how the output is divided into
\* reads: when the appliance sends exactly the markers in script order, no
\* wait times out once the program has read the markers up to its own,
\* whichever reads delivered them.
C16_ChunkingIndependent ==
    \A k \in timedout :
        noise = 0 => ~IsPrefix(ExpectedStream(k), session)

\* C17: both scripts drive the same session: on the same output of the
\* appliance each writes the same commands in the fixed order, waits for
\* the same markers in script order, and, where the transport worked, ends
\* with the same script outcome, all six steps matched or one step timed
\* out after the steps before it matched.
C17_SameEngine ==
    /\ IsPrefix(sent, FixedOrder)
    /\ started = [i \in 1..Len(started) |-> i]
    /\ Len(sent) = CommandsUpTo(Len(started))
          \/ (pc \in { "call", "exited" } /\
                Len(sent) = CommandsUpTo(Len(started) + 1))
    /\ (pc = "exited" /\ TransportWorked) =>
          \/ matched = AllSteps
          \/ \E k \in AllSteps :
                /\ timedout = { k }
                /\ matched = 1..(k - 1)

\* The SSH connection was attempted or something was written to a transport.
Connecting ==
    \/ connects > 0
    \/ ssh # "new"
    \/ channel # "none"
    \/ sent # << >>
    \/ started # << >>

\* C18: ise-export.py attempts no SSH connection and writes nothing unless
\* the environment file exists, none of the six required variables is
\* missing and AWS credentials were found; when a check fails the process
\* exits with status 1 before connecting.
C18_PreflightBeforeConnect ==
    script = ExportScript =>
        /\ (Connecting \/ pc = "connect") =>
              /\ envFile
              /\ missing_vars = { }
              /\ credentials = "found"
        /\ (pc \notin { "load_environment", "get_config",
                        "check_aws_credentials" } /\ credentials # "found") =>
              /\ pc = "exited"
              /\ exitStatus = 1
              /\ ~Connecting

\* A run of ise-export.py that found no AWS credentials has exited.
C18_Witness ==
    /\ script = ExportScript
    /\ pc = "exited"
    /\ envFile
    /\ missing_vars = { }
    /\ credentials = "missing"

\* C19: every run terminates: whatever the appliance sends or fails to
\* send, main() reaches a terminal state, the exit with status 0 or the
\* exit with status 1, and stays there.
C19_Terminates == <>[](pc = "exited" /\ exitStatus \in { 0, 1 })

\* A run in which the appliance sent nothing at all has ended, its first
\* wait having run to the timeout.
C19_Witness ==
    /\ pc = "exited"
    /\ responses = 0
    /\ noise = 0
    /\ timedout = { 1 }
    /\ exitStatus = 1

=============================================================================
